---- MODULE Spec2Model ----
(***************************************************************************)
(* Portfolio confidence pipeline: the CSV normaliser, the hierarchy        *)
(* resolver, the initiative aggregator and the confidence scorer of        *)
(* prototype/transform_jira_csv_to_snapshot.py, the driver scorer of       *)
(* prototype/generate_portfolio_heatmap.py, and the Positive Momentum list *)
(* of prototype/generate_exec_brief.py.                                    *)
(*                                                                         *)
(* Conventions.  Optional[x] is <<>> (None) or <<x>>.  A date is its day   *)
(* ordinal.  A text that the code parses is a sequence of one-character    *)
(* strings; a text that the code only compares or copies is a string.      *)
(* A dict is a function (parent_map, row_index) or, where the code relies  *)
(* on insertion order, a sequence of records keyed by id (initiatives).    *)
(* pct_done is the exact fraction num/den (den > 0); the places where      *)
(* double arithmetic departs from the exact value are modelled explicitly. *)
(***************************************************************************)
EXTENDS Integers, Sequences, FiniteSets, TLC

VARIABLES
    pc,             \* position of the run in main()/transform()
    csv,            \* the input artifact: [fieldnames, records]
    week_ending,    \* the --week-ending text
    rows,           \* List[Row] returned by load_csv
    parent_map,     \* transform: child key -> parent key
    row_index,      \* transform: key -> Row
    initiatives,    \* transform: insertion-ordered dict of InitiativeAgg
    i,              \* transform: number of rows already folded
    snapshot,       \* Optional[Dict] returned by transform
    prior,          \* Optional[Dict]: the snapshot returned by the previous call
    output,         \* Optional[Dict]: content of the --output file
    fn_in,          \* argument of a function applied on its own
    fn_out          \* Optional result of that function

vars == <<pc, csv, week_ending, rows, parent_map, row_index, initiatives, i,
          snapshot, prior, output, fn_in, fn_out>>

None == <<>>
Some(x) == <<x>>
Min(a, b) == IF a <= b THEN a ELSE b
Max(a, b) == IF a >= b THEN a ELSE b
EmptyDict == [k \in {} |-> None]

----------------------------------------------------------------------------
(* Row normaliser                                                          *)

REQUIRED_HEADERS == {"Issue key", "Issue Type", "Summary", "Status", "Parent key"}

OPTIONAL_HEADERS == {"Story Points", "Due date", "Blocks", "Blocked Days",
                     "Scope Changes (14d)"}

\* OPTIONAL_HEADERS_DEFAULTS: the text used for a column the file lacks.
OptionalDefault(h) ==
    CASE h = "Story Points" -> <<>>
      [] h = "Blocks" -> <<"0">>
      [] h = "Blocked Days" -> <<"0">>
      [] h = "Scope Changes (14d)" -> <<"0">>

DigitChars == {"0", "1", "2", "3", "4", "5", "6", "7", "8", "9"}

DigitValue(c) ==
    CASE c = "0" -> 0 [] c = "1" -> 1 [] c = "2" -> 2 [] c = "3" -> 3
      [] c = "4" -> 4 [] c = "5" -> 5 [] c = "6" -> 6 [] c = "7" -> 7
      [] c = "8" -> 8 [] c = "9" -> 9

\* str.strip() on a text.
RECURSIVE LStrip(_)
LStrip(t) == IF t # <<>> /\ Head(t) = " " THEN LStrip(Tail(t)) ELSE t

RECURSIVE RStrip(_)
RStrip(t) ==
    IF t # <<>> /\ t[Len(t)] = " " THEN RStrip(SubSeq(t, 1, Len(t) - 1)) ELSE t

Strip(t) == RStrip(LStrip(t))

RECURSIVE DecimalValue(_)
DecimalValue(t) ==
    IF t = <<>> THEN 0
    ELSE 10 * DecimalValue(SubSeq(t, 1, Len(t) - 1)) + DigitValue(t[Len(t)])

\* int(float(x)) for a plain decimal literal: optional sign, digits with at most
\* one point and at least one digit; the fraction is cut (towards zero).  Any
\* other text makes float() raise, which parse_int turns into the default.
parse_int(x, default) ==
    LET s == Strip(x)
        signed == s # <<>> /\ Head(s) \in {"-", "+"}
        body == IF signed THEN Tail(s) ELSE s
        points == {k \in 1..Len(body) : body[k] = "."}
        whole == IF points = {} THEN body
                 ELSE SubSeq(body, 1, (CHOOSE k \in points : TRUE) - 1)
        digits == {k \in 1..Len(body) : body[k] \in DigitChars}
        literal == /\ Cardinality(points) <= 1
                   /\ digits # {}
                   /\ \A k \in 1..Len(body) : body[k] \in DigitChars \cup {"."}
        magnitude == DecimalValue(whole)
    IN  IF s = <<>> THEN default
        ELSE IF ~literal THEN default
        ELSE IF signed /\ Head(s) = "-" THEN 0 - magnitude
        ELSE magnitude

\* A date text is [fmt, day]: the layout it is written in and the day it names.
DATE_FORMATS == {"%Y-%m-%d", "%m/%d/%Y", "%Y/%m/%d"}

parse_date(x) ==
    IF x.fmt = "" THEN None
    ELSE IF x.fmt \in DATE_FORMATS THEN Some(x.day)
    ELSE None

\* str.lower() on the words the inputs use.
Lower(s) ==
    CASE s = "Done" -> "done"
      [] s = "Closed" -> "closed"
      [] s = "Blocked" -> "blocked"
      [] s = "BLOCKED" -> "blocked"
      [] s = "In Progress" -> "in progress"
      [] s = "To Do" -> "to do"
      [] s = "Initiative" -> "initiative"
      [] s = "INITIATIVE" -> "initiative"
      [] s = "Epic" -> "epic"
      [] s = "Story" -> "story"
      [] s = "Sub-task" -> "sub-task"
      [] s = "Task" -> "task"
      [] OTHER -> s

normalize_status(status) ==
    LET s == Lower(status)
    IN  IF s \in {"done", "closed", "resolved"} THEN "Done"
        ELSE IF s \in {"blocked"} THEN "Blocked"
        ELSE IF s \in {"in progress", "in-progress", "inprogress", "doing"}
             THEN "In Progress"
        ELSE IF s \in {"to do", "todo", "backlog", "not started", "open"}
             THEN "Not Started"
        ELSE IF status # "" THEN status ELSE "Unknown"

\* r.get(h, default): the cell, or the default when the file lacks the column.
Cell(fieldnames, r, h) == IF h \in fieldnames THEN r[h] ELSE OptionalDefault(h)

\* Row(...) as load_csv builds it from one DictReader record.
MakeRow(fieldnames, r) ==
    [key |-> r["Issue key"],
     issue_type |-> r["Issue Type"],
     summary |-> r["Summary"],
     status |-> normalize_status(r["Status"]),
     parent_key |-> r["Parent key"],
     story_points |-> parse_int(Cell(fieldnames, r, "Story Points"), 0),
     due_date |-> IF "Due date" \in fieldnames THEN parse_date(r["Due date"])
                  ELSE None,
     blocks |-> parse_int(Cell(fieldnames, r, "Blocks"), 0),
     blocked_days |-> parse_int(Cell(fieldnames, r, "Blocked Days"), 0),
     scope_changes_14d |-> parse_int(Cell(fieldnames, r, "Scope Changes (14d)"), 0)]

\* The rows of load_csv: records with a blank key are skipped.
RECURSIVE LoadRows(_, _)
LoadRows(fieldnames, records) ==
    IF records = <<>> THEN <<>>
    ELSE LET r == Head(records)
             rest == LoadRows(fieldnames, Tail(records))
         IN  IF r["Issue key"] = "" THEN rest
             ELSE <<MakeRow(fieldnames, r)>> \o rest

----------------------------------------------------------------------------
(* Hierarchy resolver                                                      *)

\* range(20) in find_initiative_key
MAX_HOPS == 20

IsInitiative(row) == Lower(row.issue_type) = "initiative"

\* The largest index of a non-empty set of indices: in a dict built by a loop a
\* later row overwrites an earlier one.
Last(S) == CHOOSE j \in S : \A m \in S : m <= j

build_parent_map(rs) ==
    LET linked == {j \in 1..Len(rs) : rs[j].parent_key # ""}
    IN  [k \in {rs[j].key : j \in linked} |->
            rs[Last({j \in linked : rs[j].key = k})].parent_key]

index_rows(rs) ==
    [k \in {rs[j].key : j \in 1..Len(rs)} |->
        rs[Last({j \in 1..Len(rs) : rs[j].key = k})]]

\* The walk with one pass too few (range(19)).
RECURSIVE WalkUpOnePassLess(_, _, _, _, _)
WalkUpOnePassLess(cur, visited, n, pm, ri) ==
    IF n >= MAX_HOPS - 1 THEN [key |-> None, hops |-> n]
    ELSE IF cur \in visited THEN [key |-> None, hops |-> n]
    ELSE IF cur \in DOMAIN ri /\ IsInitiative(ri[cur])
         THEN [key |-> Some(ri[cur].key), hops |-> n]
    ELSE IF cur \notin DOMAIN pm THEN [key |-> None, hops |-> n]
    ELSE WalkUpOnePassLess(pm[cur], visited \cup {cur}, n + 1, pm, ri)

\* The walk with one pass too many (range(21)).
RECURSIVE WalkUpOnePassMore(_, _, _, _, _)
WalkUpOnePassMore(cur, visited, n, pm, ri) ==
    IF n > MAX_HOPS THEN [key |-> None, hops |-> n]
    ELSE IF cur \in visited THEN [key |-> None, hops |-> n]
    ELSE IF cur \in DOMAIN ri /\ IsInitiative(ri[cur])
         THEN [key |-> Some(ri[cur].key), hops |-> n]
    ELSE IF cur \notin DOMAIN pm THEN [key |-> None, hops |-> n]
    ELSE WalkUpOnePassMore(pm[cur], visited \cup {cur}, n + 1, pm, ri)

\* One pass of the loop body per call: n passes are done and n parent links
\* followed when the call starts.  The result is the key found (or None) with
\* the number of parent links followed.
RECURSIVE WalkUp(_, _, _, _, _)
WalkUp(cur, visited, n, pm, ri) ==
    IF n >= MAX_HOPS THEN [key |-> None, hops |-> n]
    ELSE IF cur \in visited THEN [key |-> None, hops |-> n]
    ELSE IF cur \in DOMAIN ri /\ IsInitiative(ri[cur])
         THEN [key |-> Some(ri[cur].key), hops |-> n]
    ELSE IF cur \notin DOMAIN pm THEN [key |-> None, hops |-> n]
    ELSE WalkUp(pm[cur], visited \cup {cur}, n + 1, pm, ri)

find_initiative_key(issue_key, pm, ri) == WalkUp(issue_key, {}, 0, pm, ri)

----------------------------------------------------------------------------
(* Confidence scorer                                                       *)

\* max(0.0, min(1.0, pct_done))
ClampUnit(pct) ==
    IF pct.num < 0 THEN [num |-> 0, den |-> 1]
    ELSE IF pct.num > pct.den THEN [num |-> 1, den |-> 1]
    ELSE pct

\* int((1.0 - p) * 30) for p in [0,1].  In doubles the product falls just under
\* its exact value k exactly when that value is one of the integers 1..7
\* (p = 23/30 .. 29/30), and int() then gives k - 1; everywhere else int()
\* gives the integer part of the exact value.
ProgressPenalty(pct) ==
    LET p == ClampUnit(pct)
        scaled == 30 * (p.den - p.num)
        whole == scaled \div p.den
    IN  IF scaled % p.den = 0 /\ whole \in 1..7 THEN whole - 1 ELSE whole

\* pct_done < t/10 for the thresholds 0.8, 0.6 and 0.3
PctBelow(pct, tenths) == 10 * pct.num < tenths * pct.den

\* dcs_from_signals with the scope penalty left uncapped.
dcs_from_signals_scope_uncapped(pct_done, blocked_days, scope_changes_14d, dependency_count, critical_dependency, days_to_target, has_blocked_items) ==
    LET s3 == 100 - ProgressPenalty(pct_done) - Min(25, blocked_days * 5)
                  - scope_changes_14d * 4
        s4 == s3 - (Min(15, dependency_count * 3)
                    + (IF critical_dependency THEN 5 ELSE 0))
        s5 == IF days_to_target # None
              THEN IF days_to_target[1] <= 7 /\ PctBelow(pct_done, 8) THEN s4 - 15
                   ELSE IF days_to_target[1] <= 14 /\ PctBelow(pct_done, 6)
                        THEN s4 - 10
                   ELSE s4
              ELSE s4
        s6 == IF has_blocked_items THEN s5 - 8 ELSE s5
    IN  Max(0, Min(100, s6))

\* dcs_from_signals returning the score as it stands after the last penalty.
dcs_from_signals_unclamped(pct_done, blocked_days, scope_changes_14d, dependency_count, critical_dependency, days_to_target, has_blocked_items) ==
    100 - ProgressPenalty(pct_done) - Min(25, blocked_days * 5)
        - Min(20, scope_changes_14d * 4)
        - (Min(15, dependency_count * 3) + (IF critical_dependency THEN 5 ELSE 0))
        - (IF days_to_target # None
           THEN IF days_to_target[1] <= 7 /\ PctBelow(pct_done, 8) THEN 15
                ELSE IF days_to_target[1] <= 14 /\ PctBelow(pct_done, 6) THEN 10
                ELSE 0
           ELSE 0)
        - (IF has_blocked_items THEN 8 ELSE 0)

dcs_from_signals(pct_done, blocked_days, scope_changes_14d, dependency_count, critical_dependency, days_to_target, has_blocked_items) ==
    LET s0 == 100
        s1 == s0 - ProgressPenalty(pct_done)
        s2 == s1 - Min(25, blocked_days * 5)
        s3 == s2 - Min(20, scope_changes_14d * 4)
        dep_pen == Min(15, dependency_count * 3)
                   + (IF critical_dependency THEN 5 ELSE 0)
        s4 == s3 - dep_pen
        s5 == IF days_to_target # None
              THEN IF days_to_target[1] <= 7 /\ PctBelow(pct_done, 8) THEN s4 - 15
                   ELSE IF days_to_target[1] <= 14 /\ PctBelow(pct_done, 6)
                        THEN s4 - 10
                   ELSE s4
              ELSE s4
        s6 == IF has_blocked_items THEN s5 - 8 ELSE s5
    IN  Max(0, Min(100, s6))

band_from_dcs(dcs) ==
    IF dcs >= 80 THEN "Green" ELSE IF dcs >= 60 THEN "Yellow" ELSE "Red"

----------------------------------------------------------------------------
(* Initiative aggregator                                                   *)

\* InitiativeAgg(id, name, due_date) with the dataclass defaults.  A name is
\* <<summary>>, or <<key, " (unresolved title)">> for the f-string of a
\* placeholder.  A status note is [prefix, text] for f"Blocked: {summary}".
InitiativeAgg(id, name, due_date) ==
    [id |-> id, name |-> name, total_points |-> 0, done_points |-> 0,
     blocked_days |-> 0, scope_changes_14d |-> 0, dependency_count |-> 0,
     critical_dependency |-> FALSE, days_stagnant |-> 0, due_date |-> due_date,
     status_notes |-> <<>>]

HasKey(d, k) == \E j \in 1..Len(d) : d[j].id = k

IndexOf(d, k) == CHOOSE j \in 1..Len(d) : d[j].id = k

\* d[k] = v on an insertion-ordered dict: a present key keeps its place.
DictPut(d, k, v) ==
    IF HasKey(d, k) THEN [d EXCEPT ![IndexOf(d, k)] = v] ELSE Append(d, v)

\* initiatives = {r.key: InitiativeAgg(...)} for the rows typed Initiative.
RECURSIVE InitialAggregates(_)
InitialAggregates(rs) ==
    IF rs = <<>> THEN <<>>
    ELSE LET r == rs[Len(rs)]
             before == InitialAggregates(SubSeq(rs, 1, Len(rs) - 1))
         IN  IF IsInitiative(r)
             THEN DictPut(before, r.key, InitiativeAgg(r.key, <<r.summary>>, r.due_date))
             ELSE before

POINT_TYPES == {"story", "sub-task", "subtask", "task"}

\* The loop body with blocked_days accumulated like the two sums.
FoldIntoSummingBlocked(agg, r) ==
    LET counted == Lower(r.issue_type) \in POINT_TYPES
    IN  [agg EXCEPT
            !.due_date = IF r.due_date # None
                            /\ (@ = None \/ r.due_date[1] < @[1])
                         THEN r.due_date ELSE @,
            !.total_points = IF counted THEN @ + r.story_points ELSE @,
            !.done_points = IF counted /\ r.status = "Done"
                            THEN @ + r.story_points ELSE @,
            !.blocked_days = @ + r.blocked_days,
            !.scope_changes_14d = @ + r.scope_changes_14d,
            !.dependency_count = @ + r.blocks,
            !.critical_dependency = IF r.blocks >= 3 THEN TRUE ELSE @,
            !.status_notes = IF r.status = "Blocked" /\ r.summary # ""
                             THEN Append(@, [prefix |-> "Blocked:", text |-> r.summary])
                             ELSE @]

\* The loop body with critical_dependency taken from the current row alone.
FoldIntoCriticalOfLastRow(agg, r) ==
    LET counted == Lower(r.issue_type) \in POINT_TYPES
    IN  [agg EXCEPT
            !.due_date = IF r.due_date # None
                            /\ (@ = None \/ r.due_date[1] < @[1])
                         THEN r.due_date ELSE @,
            !.total_points = IF counted THEN @ + r.story_points ELSE @,
            !.done_points = IF counted /\ r.status = "Done"
                            THEN @ + r.story_points ELSE @,
            !.blocked_days = Max(@, r.blocked_days),
            !.scope_changes_14d = @ + r.scope_changes_14d,
            !.dependency_count = @ + r.blocks,
            !.critical_dependency = r.blocks >= 3,
            !.status_notes = IF r.status = "Blocked" /\ r.summary # ""
                             THEN Append(@, [prefix |-> "Blocked:", text |-> r.summary])
                             ELSE @]

\* The body of the aggregation loop for a row that resolves to aggregate agg.
FoldInto(agg, r) ==
    LET due == IF r.due_date # None
                  /\ (agg.due_date = None \/ r.due_date[1] < agg.due_date[1])
               THEN r.due_date ELSE agg.due_date
        counted == Lower(r.issue_type) \in POINT_TYPES
        pts == r.story_points
    IN  [agg EXCEPT
            !.due_date = due,
            !.total_points = IF counted THEN @ + pts ELSE @,
            !.done_points = IF counted /\ r.status = "Done" THEN @ + pts ELSE @,
            !.blocked_days = Max(@, r.blocked_days),
            !.scope_changes_14d = @ + r.scope_changes_14d,
            !.dependency_count = @ + r.blocks,
            !.critical_dependency = IF r.blocks >= 3 THEN TRUE ELSE @,
            !.status_notes = IF r.status = "Blocked" /\ r.summary # ""
                             THEN Append(@, [prefix |-> "Blocked:", text |-> r.summary])
                             ELSE @]

\* A pass of the loop that gives a row without an Initiative above it a
\* placeholder aggregate under its parent key.
FoldRowIntoParentPlaceholder(d, r, pm, ri) ==
    LET ikey == find_initiative_key(r.key, pm, ri).key
        k == IF ikey # None THEN ikey[1] ELSE r.parent_key
    IN  IF k = "" THEN d
        ELSE LET d1 == IF HasKey(d, k) THEN d
                       ELSE Append(d, InitiativeAgg(k, <<k, " (unresolved title)">>, None))
             IN  [d1 EXCEPT ![IndexOf(d1, k)] = FoldInto(@, r)]

\* One pass of "for r in rows" on the dict d.
FoldRowInto(d, r, pm, ri) ==
    LET ikey == find_initiative_key(r.key, pm, ri).key
    IN  IF ikey = None THEN d
        ELSE LET k == ikey[1]
                 d1 == IF HasKey(d, k) THEN d
                       ELSE Append(d, InitiativeAgg(k, <<k, " (unresolved title)">>, None))
             IN  [d1 EXCEPT ![IndexOf(d1, k)] = FoldInto(@, r)]

----------------------------------------------------------------------------
(* Snapshot assembler                                                      *)

PctDone(agg) ==
    IF agg.total_points > 0
    THEN [num |-> agg.done_points, den |-> agg.total_points]
    ELSE [num |-> 0, den |-> 1]

DaysToTarget(agg, we) ==
    IF agg.due_date # None THEN Some(agg.due_date[1] - we) ELSE None

HasBlockedItems(agg) ==
    \E j \in 1..Len(agg.status_notes) : agg.status_notes[j].prefix = "Blocked:"

DaysStagnant(agg, we) ==
    LET pct == PctDone(agg)
        dtt == DaysToTarget(agg, we)
    IN  IF agg.total_points > 0 /\ PctBelow(pct, 3) /\ dtt # None /\ dtt[1] <= 14
        THEN 4
        ELSE IF PctBelow(pct, 8) THEN 1 ELSE 0

\* The drift without its cap of 8.
DriftUncapped(agg) ==
    agg.scope_changes_14d * 2 + (IF HasBlockedItems(agg) THEN 2 ELSE 0)

\* drift = min(8, agg.scope_changes_14d * 2 + (2 if has_blocked_items else 0))
Drift(agg) ==
    Min(8, agg.scope_changes_14d * 2 + (IF HasBlockedItems(agg) THEN 2 ELSE 0))

\* The dict appended to out_inits for one aggregate.
InitiativeRecord(agg, we) ==
    LET pct_done == PctDone(agg)
        days_to_target == DaysToTarget(agg, we)
        has_blocked_items == HasBlockedItems(agg)
        dcs_current == dcs_from_signals(pct_done, agg.blocked_days,
                           agg.scope_changes_14d, agg.dependency_count,
                           agg.critical_dependency, days_to_target,
                           has_blocked_items)
        drift == Drift(agg)
        dcs_prior == Max(0, Min(100, dcs_current + drift))
        notes == SubSeq(agg.status_notes, 1, Min(2, Len(agg.status_notes)))
    IN  [id |-> agg.id,
         name |-> agg.name,
         dcs_current |-> dcs_current,
         dcs_prior |-> dcs_prior,
         band |-> band_from_dcs(dcs_current),
         blocked_days |-> agg.blocked_days,
         scope_changes_14d |-> agg.scope_changes_14d,
         days_stagnant |-> DaysStagnant(agg, we),
         dependency_count |-> agg.dependency_count,
         critical_dependency |-> agg.critical_dependency,
         days_to_target |-> IF days_to_target # None THEN days_to_target[1] ELSE 21,
         status_notes |-> IF notes # <<>> THEN notes
                          ELSE <<[prefix |-> "",
                                  text |-> "No significant blockers detected in snapshot."]>>]

\* Code point of the first character of a band name, which decides the string
\* comparison of two different band names.
BandOrd(band) ==
    CASE band = "Green" -> 71 [] band = "Red" -> 82 [] band = "Yellow" -> 89

\* The sort key without the band: records compared by dcs_current alone.
KeyLessByScore(x, y) == x.dcs_current < y.dcs_current

\* (x["band"], x["dcs_current"]) < (y["band"], y["dcs_current"])
KeyLess(x, y) ==
    \/ BandOrd(x.band) < BandOrd(y.band)
    \/ x.band = y.band /\ x.dcs_current < y.dcs_current

\* list.sort(key=...): stable, so a record goes after the records already placed
\* whose key is not greater than its own.
RECURSIVE SortRecords(_)
SortRecords(recs) ==
    IF recs = <<>> THEN <<>>
    ELSE LET x == recs[Len(recs)]
             placed == SortRecords(SubSeq(recs, 1, Len(recs) - 1))
             at == Cardinality({j \in 1..Len(placed) : ~KeyLess(x, placed[j])})
         IN  SubSeq(placed, 1, at) \o <<x>> \o SubSeq(placed, at + 1, Len(placed))

MakeSnapshot(d, we_text, we) ==
    LET out_inits == SortRecords([j \in 1..Len(d) |-> InitiativeRecord(d[j], we)])
    IN  [portfolio |-> [week_ending |-> we_text,
                        total_initiatives |-> Len(out_inits),
                        source |-> "csv_transform"],
         initiatives |-> out_inits]

\* "for r in rows": the first k rows folded into d.
RECURSIVE FoldRows(_, _, _, _, _)
FoldRows(d, rs, k, pm, ri) ==
    IF k = 0 THEN d
    ELSE FoldRowInto(FoldRows(d, rs, k - 1, pm, ri), rs[k], pm, ri)

\* transform(rows, week_ending) as a function of its arguments: the snapshot it
\* returns, or None when it raises ValueError.
transform(rs, we_text) ==
    LET pm == build_parent_map(rs)
        ri == index_rows(rs)
        d == FoldRows(InitialAggregates(rs), rs, Len(rs), pm, ri)
        we == parse_date(we_text)
    IN  IF we = None THEN None ELSE Some(MakeSnapshot(d, we_text, we[1]))

----------------------------------------------------------------------------
(* Executive brief: Positive Momentum                                      *)

\* Initiative.delta
delta(x) == x.dcs_current - x.dcs_prior

\* (x.delta, x.dcs_current) > (y.delta, y.dcs_current)
MomentumKeyGreater(x, y) ==
    \/ delta(x) > delta(y)
    \/ delta(x) = delta(y) /\ x.dcs_current > y.dcs_current

\* sorted(..., reverse=True): descending and stable, so a record goes after the
\* records already placed whose key is not less than its own.
RECURSIVE SortMomentum(_)
SortMomentum(recs) ==
    IF recs = <<>> THEN <<>>
    ELSE LET x == recs[Len(recs)]
             placed == SortMomentum(SubSeq(recs, 1, Len(recs) - 1))
             at == Cardinality({j \in 1..Len(placed) : ~MomentumKeyGreater(x, placed[j])})
         IN  SubSeq(placed, 1, at) \o <<x>> \o SubSeq(placed, at + 1, Len(placed))

\* positives of render_brief: the records with a positive delta or strongly
\* Green, in descending order of (delta, dcs_current), the first three.
Positives(inits) ==
    LET chosen == SelectSeq(inits, LAMBDA x :
                      delta(x) > 0 \/ (x.band = "Green" /\ x.dcs_current >= 85))
        sorted == SortMomentum(chosen)
    IN  SubSeq(sorted, 1, Min(3, Len(sorted)))

----------------------------------------------------------------------------
(* Inputs                                                                  *)

\* Largest number of records in the input file.
MaxRows == 3

ALL_HEADERS == REQUIRED_HEADERS \cup OPTIONAL_HEADERS

Blank == [fmt |-> "", day |-> 0]
Iso(d) == [fmt |-> "%Y-%m-%d", day |-> d]
Us(d) == [fmt |-> "%m/%d/%Y", day |-> d]
Dotted(d) == [fmt |-> "%d.%m.%Y", day |-> d]

\* One DictReader record.
Raw(key, type, summary, status, parent, points, due, blocks, blocked, scope) ==
    ("Issue key" :> key) @@ ("Issue Type" :> type) @@ ("Summary" :> summary)
    @@ ("Status" :> status) @@ ("Parent key" :> parent)
    @@ ("Story Points" :> points) @@ ("Due date" :> due) @@ ("Blocks" :> blocks)
    @@ ("Blocked Days" :> blocked) @@ ("Scope Changes (14d)" :> scope)

\* The records an input file is made of.  The week ends on day 10.
RawPool ==
    { Raw("I1", "Initiative", "Alpha", "In Progress", "", <<>>, Iso(17),
          <<"0">>, <<"0">>, <<"0">>),
      Raw("I1", "Initiative", "Alpha", "In Progress", "", <<>>, Iso(15),
          <<"0">>, <<"5">>, <<"3">>),
      Raw("I2", "INITIATIVE", "Beta", "To Do", "", <<>>, Blank,
          <<"0">>, <<"-", "2">>, <<"0">>),
      Raw("I2", "Initiative", "Beta", "Blocked", "I1", <<"8">>, Iso(22),
          <<"3">>, <<"2">>, <<"1">>),
      Raw("E1", "Epic", "Epic", "In Progress", "I1", <<>>, Blank,
          <<"3">>, <<"1">>, <<"-", "1">>),
      Raw("S1", "Task", "Build", "Done", "I1", <<"1", "0">>, Blank,
          <<"0">>, <<"0">>, <<"0">>),
      Raw("S1", "Story", "Stuck", "BLOCKED", "I1", <<"1", "0">>, Blank,
          <<"0">>, <<"0">>, <<"0">>),
      Raw("S1", "Story", "Build", "In Progress", "E1", <<"3">>, Us(13),
          <<"2">>, <<" ", "3", " ">>, <<"2">>),
      Raw("S2", "Story", "Fix", "Closed", "I1", <<"-", "5">>, Blank,
          <<"0">>, <<"0">>, <<"0">>),
      Raw("S2", "Sub-task", "", "Blocked", "I1", <<"2", ".", "9">>, Blank,
          <<"0">>, <<"0">>, <<"0">>),
      Raw("S2", "Story", "Orphan", "Done", "I9", <<"5">>, Dotted(12),
          <<"3">>, <<"a", "b", "c">>, <<"0">>),
      Raw("", "Story", "Nameless", "Done", "I1", <<"7">>, Blank,
          <<"3">>, <<"9">>, <<"9">>) }

SeqsUpTo(S, n) == UNION {[1..m -> S] : m \in 0..n}

\* The header lines an input file may have: complete, or lacking a required column.
FieldnameSets == {ALL_HEADERS, ALL_HEADERS \ {"Status"}}

WeekEndings == {Iso(10), Dotted(10)}

----------------------------------------------------------------------------
(* main() and transform()                                                  *)

Init ==
    /\ pc = "load"
    /\ csv \in [fieldnames : FieldnameSets, records : SeqsUpTo(RawPool, MaxRows)]
    /\ week_ending \in WeekEndings
    /\ rows = <<>>
    /\ parent_map = EmptyDict
    /\ row_index = EmptyDict
    /\ initiatives = <<>>
    /\ i = 0
    /\ snapshot = None
    /\ prior = None
    /\ output = None
    /\ fn_in = None
    /\ fn_out = None

\* load_csv raises ValueError: a required header is missing.
LoadCsvError ==
    /\ pc = "load"
    /\ ~(REQUIRED_HEADERS \subseteq csv.fieldnames)
    /\ pc' = "error"
    /\ UNCHANGED <<csv, week_ending, rows, parent_map, row_index, initiatives, i,
                   snapshot, prior, output, fn_in, fn_out>>

\* rows = load_csv(args.input)
LoadCsv ==
    /\ pc = "load"
    /\ REQUIRED_HEADERS \subseteq csv.fieldnames
    /\ rows' = LoadRows(csv.fieldnames, csv.records)
    /\ pc' = "transform"
    /\ UNCHANGED <<csv, week_ending, parent_map, row_index, initiatives, i,
                   snapshot, prior, output, fn_in, fn_out>>

\* transform, up to the aggregation loop: the two maps and the aggregates of the
\* rows typed Initiative.
TransformBegin ==
    /\ pc = "transform"
    /\ parent_map' = build_parent_map(rows)
    /\ row_index' = index_rows(rows)
    /\ initiatives' = InitialAggregates(rows)
    /\ i' = 0
    /\ pc' = "fold"
    /\ UNCHANGED <<csv, week_ending, rows, snapshot, prior, output, fn_in, fn_out>>

\* A pass of the loop that takes the points out of the row it has counted.
FoldRowConsuming ==
    /\ pc = "fold"
    /\ i < Len(rows)
    /\ initiatives' = FoldRowInto(initiatives, rows[i + 1], parent_map, row_index)
    /\ rows' = [rows EXCEPT ![i + 1].story_points = 0]
    /\ i' = i + 1
    /\ UNCHANGED <<pc, csv, week_ending, parent_map, row_index, snapshot,
                   prior, output, fn_in, fn_out>>

\* One pass of the aggregation loop.
FoldRow ==
    /\ pc = "fold"
    /\ i < Len(rows)
    /\ initiatives' = FoldRowInto(initiatives, rows[i + 1], parent_map, row_index)
    /\ i' = i + 1
    /\ UNCHANGED <<pc, csv, week_ending, rows, parent_map, row_index, snapshot,
                   prior, output, fn_in, fn_out>>

\* The raise after the loop, with the output file written from the aggregates
\* before it (the week taken as day 0).
WeekEndingErrorAfterWrite ==
    /\ pc = "fold"
    /\ i = Len(rows)
    /\ parse_date(week_ending) = None
    /\ output' = Some(MakeSnapshot(initiatives, week_ending, 0))
    /\ pc' = "error"
    /\ UNCHANGED <<csv, week_ending, rows, parent_map, row_index, initiatives, i,
                   snapshot, prior, fn_in, fn_out>>

\* transform raises ValueError after the loop: week_ending is no date.
WeekEndingError ==
    /\ pc = "fold"
    /\ i = Len(rows)
    /\ parse_date(week_ending) = None
    /\ pc' = "error"
    /\ UNCHANGED <<csv, week_ending, rows, parent_map, row_index, initiatives, i,
                   snapshot, prior, output, fn_in, fn_out>>

\* transform from the loop's end to its return: the records, days_stagnant
\* stored on each aggregate, the sort and the returned dict.
Finalize ==
    /\ pc = "fold"
    /\ i = Len(rows)
    /\ parse_date(week_ending) # None
    /\ LET we == parse_date(week_ending)[1]
       IN  /\ snapshot' = Some(MakeSnapshot(initiatives, week_ending, we))
           /\ initiatives' = [j \in 1..Len(initiatives) |->
                                 [initiatives[j] EXCEPT
                                     !.days_stagnant = DaysStagnant(initiatives[j], we)]]
    /\ pc' = IF prior = None THEN "write" ELSE "done"
    /\ UNCHANGED <<csv, week_ending, rows, parent_map, row_index, i, prior,
                   output, fn_in, fn_out>>

\* json.dump(snapshot, f) into the --output file.
WriteOutput ==
    /\ pc = "write"
    /\ output' = snapshot
    /\ pc' = "done"
    /\ UNCHANGED <<csv, week_ending, rows, parent_map, row_index, initiatives, i,
                   snapshot, prior, fn_in, fn_out>>

\* generate_exec_brief on the written snapshot: render_brief builds the Positive
\* Momentum list.
RenderBrief ==
    /\ pc = "done"
    /\ output # None
    /\ output[1].initiatives # <<>>
    /\ fn_out' = Some([positives |-> Positives(output[1].initiatives)])
    /\ pc' = "briefed"
    /\ UNCHANGED <<csv, week_ending, rows, parent_map, row_index, initiatives, i,
                   snapshot, prior, output, fn_in>>

\* render_brief raises ValueError: min() of an empty list of initiatives.
RenderBriefError ==
    /\ pc = "done"
    /\ output # None
    /\ output[1].initiatives = <<>>
    /\ pc' = "brief_error"
    /\ UNCHANGED <<csv, week_ending, rows, parent_map, row_index, initiatives, i,
                   snapshot, prior, output, fn_in, fn_out>>

\* A second call transform(rows, week_ending) on the list the first call used;
\* the locals of the call start afresh.
TransformAgain ==
    /\ pc = "done"
    /\ prior = None
    /\ prior' = snapshot
    /\ snapshot' = None
    /\ parent_map' = EmptyDict
    /\ row_index' = EmptyDict
    /\ initiatives' = <<>>
    /\ i' = 0
    /\ pc' = "transform"
    /\ UNCHANGED <<csv, week_ending, rows, output, fn_in, fn_out>>

Next ==
    \/ LoadCsvError
    \/ LoadCsv
    \/ TransformBegin
    \/ FoldRow
    \/ WeekEndingError
    \/ Finalize
    \/ WriteOutput
    \/ RenderBrief
    \/ RenderBriefError
    \/ TransformAgain

Spec == Init /\ [][Next]_vars

----------------------------------------------------------------------------
(* The scoring of one aggregate, applied on its own                        *)

\* Largest total_points and done_points of a drawn aggregate.
MaxPoints == 10

BlockedNote == [prefix |-> "Blocked:", text |-> "Stuck"]

\* Aggregates as the loop can leave them, week ending on day 10.
ScoreInputs ==
    { [agg |-> [InitiativeAgg("I1", <<"Alpha">>, due) EXCEPT
                   !.total_points = total, !.done_points = done,
                   !.blocked_days = blocked, !.scope_changes_14d = scope,
                   !.dependency_count = deps, !.critical_dependency = critical,
                   !.status_notes = notes],
       we |-> 10] :
        total \in -1..MaxPoints, done \in -1..MaxPoints,
        blocked \in {-1, 0, 5, 6}, scope \in {0, 3, 6}, deps \in {0, 1, 6},
        critical \in BOOLEAN,
        due \in {None, Some(15), Some(17), Some(18), Some(24), Some(25)},
        notes \in {<<>>, <<BlockedNote>>} }

IdleRun ==
    /\ csv = [fieldnames |-> {}, records |-> <<>>]
    /\ week_ending = Blank
    /\ rows = <<>>
    /\ parent_map = EmptyDict
    /\ row_index = EmptyDict
    /\ initiatives = <<>>
    /\ i = 0
    /\ snapshot = None
    /\ prior = None
    /\ output = None

InitScore ==
    /\ pc = "score"
    /\ fn_in \in ScoreInputs
    /\ fn_out = None
    /\ IdleRun

\* The body of "for agg in initiatives.values()" for one aggregate.
ScoreAggregate ==
    /\ pc = "score"
    /\ fn_out' = Some(InitiativeRecord(fn_in.agg, fn_in.we))
    /\ pc' = "returned"
    /\ UNCHANGED <<csv, week_ending, rows, parent_map, row_index, initiatives, i,
                   snapshot, prior, output, fn_in>>

NextScore == ScoreAggregate

SpecScore == InitScore /\ [][NextScore]_vars

----------------------------------------------------------------------------
(* The hierarchy resolver, applied on its own                              *)

\* Number of keys of a drawn hierarchy; the key MaxKeys + 1 has no row.
MaxKeys == 3

\* Longest drawn chain of parent links.
MaxChain == 22

KeyRow(k, type) == [key |-> k, issue_type |-> type]

PartialMaps(D, R) == UNION {[S -> R] : S \in SUBSET D}

\* Every hierarchy on the keys 1..MaxKeys: any parent links (also to the key
\* without a row), every row typed Story or Initiative.
GraphInputs ==
    { [issue_key |-> start, parent_map |-> pm,
       row_index |-> [k \in 1..MaxKeys |-> KeyRow(k, types[k])]] :
        start \in 1..(MaxKeys + 1),
        pm \in PartialMaps(1..MaxKeys, 1..(MaxKeys + 1)),
        types \in [1..MaxKeys -> {"Story", "Initiative"}] }

\* A chain 1 -> 2 -> ... -> n, open or closed into a ring by n -> 1, with the
\* row at `top` typed Initiative (none when top = 0).
ChainInput(n, ring, top, start) ==
    [issue_key |-> start,
     parent_map |-> [k \in (IF ring THEN 1..n ELSE 1..(n - 1)) |->
                        IF k = n THEN 1 ELSE k + 1],
     row_index |-> [k \in 1..n |->
                       KeyRow(k, IF k = top THEN "Initiative" ELSE "Epic")]]

ChainInputs ==
    { ChainInput(n, ring, top, start) :
        n \in (MAX_HOPS - 2)..MaxChain, ring \in BOOLEAN,
        top \in {0, 1, MAX_HOPS - 1, MAX_HOPS, MAX_HOPS + 1, MaxChain},
        start \in {1, 2, 3} }

InitResolve ==
    /\ pc = "resolve"
    /\ fn_in \in GraphInputs \cup ChainInputs
    /\ fn_out = None
    /\ IdleRun

\* ikey = find_initiative_key(r.key, parent_map, row_index)
Resolve ==
    /\ pc = "resolve"
    /\ fn_out' = Some(find_initiative_key(fn_in.issue_key, fn_in.parent_map,
                                          fn_in.row_index))
    /\ pc' = "returned"
    /\ UNCHANGED <<csv, week_ending, rows, parent_map, row_index, initiatives, i,
                   snapshot, prior, output, fn_in>>

NextResolve == Resolve

SpecResolve == InitResolve /\ [][NextResolve]_vars

----------------------------------------------------------------------------
(* Driver heatmap scorer                                                   *)

\* round() of num/den (den > 0, num >= 0): to the nearest integer, a tie to the
\* even one.
RoundHalfEven(num, den) ==
    LET q == num \div den
        r == num % den
    IN  IF 2 * r < den THEN q
        ELSE IF 2 * r > den THEN q + 1
        ELSE IF q % 2 = 0 THEN q ELSE q + 1

\* int(round(clamp((value / max_value) * 10.0, 0.0, 10.0)))
score_0_10(value, max_value) ==
    IF max_value <= 0 THEN 0
    ELSE IF value <= 0 THEN 0
    ELSE IF value >= max_value THEN 10
    ELSE RoundHalfEven(value * 10, max_value)

\* compute_driver_scores without the cap on the bumped Dependencies score.
compute_driver_scores_bump_uncapped(item) ==
    LET dependencies == score_0_10(item.dependency_count, 6)
    IN  [confidence_risk |-> score_0_10(100 - item.dcs_current, 60),
         blocked |-> score_0_10(item.blocked_days, 5),
         scope_volatility |-> score_0_10(item.scope_changes_14d, 5),
         dependencies |-> IF item.critical_dependency
                          THEN dependencies + 2 ELSE dependencies,
         due_proximity |-> IF item.days_to_target <= 7 THEN 10
                           ELSE IF item.days_to_target <= 14 THEN 7
                           ELSE IF item.days_to_target <= 21 THEN 4
                           ELSE 1,
         stagnation |-> score_0_10(item.days_stagnant, 6)]

compute_driver_scores(item) ==
    LET dependencies == score_0_10(item.dependency_count, 6)
    IN  [confidence_risk |-> score_0_10(100 - item.dcs_current, 60),
         blocked |-> score_0_10(item.blocked_days, 5),
         scope_volatility |-> score_0_10(item.scope_changes_14d, 5),
         dependencies |-> IF item.critical_dependency
                          THEN Min(10, dependencies + 2) ELSE dependencies,
         due_proximity |-> IF item.days_to_target <= 7 THEN 10
                           ELSE IF item.days_to_target <= 14 THEN 7
                           ELSE IF item.days_to_target <= 21 THEN 4
                           ELSE 1,
         stagnation |-> score_0_10(item.days_stagnant, 6)]

\* Snapshot records with any integers in the fields the scorer reads.
HeatInputs ==
    [dcs_current : {-20, 0, 37, 40, 85, 91, 97, 100, 130},
     blocked_days : {-1, 0, 1, 3, 5, 9},
     scope_changes_14d : {-2, 0, 2, 7},
     dependency_count : {-1, 0, 3, 5, 6, 9},
     critical_dependency : BOOLEAN,
     days_to_target : {-3, 7, 8, 14, 15, 21, 22},
     days_stagnant : {-1, 0, 1, 4, 7}]

InitHeat ==
    /\ pc = "heat"
    /\ fn_in \in HeatInputs
    /\ fn_out = None
    /\ IdleRun

\* d = compute_driver_scores(it)
ComputeDriverScores ==
    /\ pc = "heat"
    /\ fn_out' = Some(compute_driver_scores(fn_in))
    /\ pc' = "returned"
    /\ UNCHANGED <<csv, week_ending, rows, parent_map, row_index, initiatives, i,
                   snapshot, prior, output, fn_in>>

NextHeat == ComputeDriverScores

SpecHeat == InitHeat /\ [][NextHeat]_vars

----------------------------------------------------------------------------
(* Properties of the run                                                   *)

Records == IF snapshot = None THEN <<>> ELSE snapshot[1].initiatives

\* The aggregate a snapshot record was made from.
AggOf(rec) == initiatives[IndexOf(initiatives, rec.id)]

\* The rows that find_initiative_key resolves to the initiative `id`.
RowsOf(id) ==
    {j \in 1..Len(rows) :
        find_initiative_key(rows[j].key, parent_map, row_index).key = Some(id)}

RECURSIVE SumOver(_, _)
SumOver(S, f) ==
    IF S = {} THEN 0
    ELSE LET j == CHOOSE m \in S : TRUE IN f[j] + SumOver(S \ {j}, f)

MaxOver(S, f) == CHOOSE v \in {f[j] : j \in S} : \A m \in S : f[m] <= v

BandMatches(rec) ==
    /\ rec.band \in {"Green", "Yellow", "Red"}
    /\ rec.band = "Green" <=> rec.dcs_current >= 80
    /\ rec.band = "Yellow" <=> (rec.dcs_current >= 60 /\ rec.dcs_current <= 79)
    /\ rec.band = "Red" <=> rec.dcs_current < 60

\* C1: every initiative record of the snapshot returned by transform has
\* dcs_current in [0,100] and a band that is Green exactly for dcs_current >= 80,
\* Yellow exactly for 60..79 and Red exactly below 60.
C1_ScoreInRangeBandMatches ==
    \A j \in 1..Len(Records) :
        /\ Records[j].dcs_current \in 0..100
        /\ BandMatches(Records[j])

\* A snapshot holding a Yellow record and a Red one.
C1_Witness ==
    /\ \E j \in 1..Len(Records) : Records[j].band = "Yellow"
    /\ \E j \in 1..Len(Records) : Records[j].band = "Red"

\* C3 (as stated): when a row's Parent key is a key no row of the input has,
\* the snapshot holds a record for that key, named "<key> (unresolved title)",
\* into which the row was folded, with dcs_current in [0,100] and its band.
C3_PlaceholderForMissingInitiative ==
    snapshot # None =>
        \A j \in 1..Len(rows) :
            LET p == rows[j].parent_key
            IN  (p # "" /\ p \notin DOMAIN row_index) =>
                    \E m \in 1..Len(Records) :
                        /\ Records[m].id = p
                        /\ Records[m].name = <<p, " (unresolved title)">>
                        /\ j \in RowsOf(p)
                        /\ Records[m].dcs_current \in 0..100
                        /\ BandMatches(Records[m])

\* C4 (as stated): dependency_count and scope_changes_14d of a snapshot record
\* are the sums of blocks and of scope_changes_14d over the rows resolving to
\* it, and blocked_days is the maximum of blocked_days over those rows.
C4_RollupsSumAndMax ==
    \A m \in 1..Len(Records) :
        LET rec == Records[m]
            S == RowsOf(rec.id)
            Blocks == [j \in 1..Len(rows) |-> rows[j].blocks]
            Scope == [j \in 1..Len(rows) |-> rows[j].scope_changes_14d]
            Blocked == [j \in 1..Len(rows) |-> rows[j].blocked_days]
        IN  /\ rec.dependency_count = SumOver(S, Blocks)
            /\ rec.scope_changes_14d = SumOver(S, Scope)
            /\ S # {} => rec.blocked_days = MaxOver(S, Blocked)

\* C4 (as the loop computes it): the sums as stated; blocked_days is the
\* maximum of 0, the starting value, and the blocked_days of the rows resolving
\* to the initiative.  It differs from the statement above only on rows with a
\* negative blocked_days.
C4_RollupsSumAndMaxFromZero ==
    \A m \in 1..Len(Records) :
        LET rec == Records[m]
            S == RowsOf(rec.id)
            Blocks == [j \in 1..Len(rows) |-> rows[j].blocks]
            Scope == [j \in 1..Len(rows) |-> rows[j].scope_changes_14d]
            Blocked == [j \in 1..Len(rows) |-> rows[j].blocked_days]
        IN  /\ rec.dependency_count = SumOver(S, Blocks)
            /\ rec.scope_changes_14d = SumOver(S, Scope)
            /\ rec.blocked_days = (IF S = {} THEN 0 ELSE Max(0, MaxOver(S, Blocked)))

\* Three rows resolve to one initiative, and the maximum of their blocked_days
\* differs from the sum while dependency_count is the sum of several blocks.
C4_Witness ==
    \E m \in 1..Len(Records) :
        LET rec == Records[m]
            S == RowsOf(rec.id)
            Blocked == [j \in 1..Len(rows) |-> rows[j].blocked_days]
        IN  /\ Cardinality(S) = 3
            /\ Cardinality({j \in S : rows[j].blocks > 0}) >= 2
            /\ Cardinality({j \in S : rows[j].blocked_days > 0}) >= 2
            /\ rec.blocked_days < SumOver(S, Blocked)
            /\ rec.dependency_count >= 3

\* C5 (as stated): the blocked-item penalty of 8 enters dcs_current, and the +2
\* enters the drift of dcs_prior, exactly when some row resolving to the
\* initiative has status Blocked, whatever its Summary.
C5_PenaltyIffBlockedRow ==
    snapshot # None =>
        \A m \in 1..Len(Records) :
            LET rec == Records[m]
                agg == AggOf(rec)
                we == parse_date(week_ending)[1]
                any_blocked == \E j \in RowsOf(rec.id) : rows[j].status = "Blocked"
                drift == Min(8, agg.scope_changes_14d * 2
                                + (IF any_blocked THEN 2 ELSE 0))
            IN  /\ rec.dcs_current =
                       dcs_from_signals(PctDone(agg), agg.blocked_days,
                           agg.scope_changes_14d, agg.dependency_count,
                           agg.critical_dependency, DaysToTarget(agg, we),
                           any_blocked)
                /\ rec.dcs_prior = Max(0, Min(100, rec.dcs_current + drift))

\* C8: a second call of transform on the rows the first call used returns the
\* same snapshot, records in the same order, and the rows are still the ones
\* load_csv returned.
C8_SecondRunSameSnapshot ==
    /\ pc # "load" /\ pc # "error" => rows = LoadRows(csv.fieldnames, csv.records)
    /\ (prior # None /\ snapshot # None) => snapshot = prior

\* The second call has returned a snapshot of two initiatives in both bands.
C8_Witness ==
    /\ prior # None
    /\ snapshot # None
    /\ Len(Records) = 2
    /\ Records[1].band # Records[2].band
    /\ Len(rows) = 3

C12_CriticalOnceBlocksAtLeast3 ==
    /\ pc = "fold" =>
           \A a \in 1..Len(initiatives) :
               initiatives[a].critical_dependency
                   <=> \E j \in RowsOf(initiatives[a].id) : j <= i /\ rows[j].blocks >= 3
    /\ \A m \in 1..Len(Records) :
           Records[m].critical_dependency
               <=> \E j \in RowsOf(Records[m].id) : rows[j].blocks >= 3

\* Three rows of one initiative are folded: the second has blocks >= 3, the
\* first and the third have fewer, and the aggregate is still critical.
C12_Witness ==
    /\ pc = "fold"
    /\ i = 3
    /\ Len(initiatives) = 1
    /\ RowsOf(initiatives[1].id) = {1, 2, 3}
    /\ rows[1].blocks < 3
    /\ rows[2].blocks >= 3
    /\ rows[3].blocks < 3
    /\ initiatives[1].critical_dependency

\* Other values for the fields of a row that the aggregation reads.
Alterations ==
    { [story_points |-> 7, blocks |-> 4, blocked_days |-> 6,
       scope_changes_14d |-> 5, due_date |-> Some(11), status |-> "Blocked"],
      [story_points |-> 0, blocks |-> 0, blocked_days |-> 0,
       scope_changes_14d |-> 0, due_date |-> None, status |-> "Done"] }

Altered(r, alt) ==
    [r EXCEPT !.story_points = alt.story_points, !.blocks = alt.blocks,
              !.blocked_days = alt.blocked_days,
              !.scope_changes_14d = alt.scope_changes_14d,
              !.due_date = alt.due_date, !.status = alt.status]

Unresolved(j) == find_initiative_key(rows[j].key, parent_map, row_index).key = None

\* transform has just returned: from its first call the run goes on to the
\* write, from its second call it is done.
JustReturned == snapshot # None /\ (pc = "write" \/ (pc = "done" /\ prior # None))

\* C13: a row for which find_initiative_key returns none changes no aggregate:
\* the snapshot transform returns for the row list is the snapshot it returns
\* for the same list with the points, blocks, blocked_days, scope changes, due
\* date and status of that row changed.
C13_UnresolvedRowLeavesSnapshot ==
    JustReturned =>
        \A j \in 1..Len(rows) : \A alt \in Alterations :
            Unresolved(j) =>
                transform([rows EXCEPT ![j] = Altered(rows[j], alt)], week_ending)
                    = snapshot

\* A snapshot of two scored initiatives from a list whose third row resolves to
\* none, and a change of all six fields of that row.
C13_Witness ==
    /\ snapshot # None
    /\ Len(Records) = 2
    /\ Len(rows) = 3
    /\ Unresolved(3)
    /\ \E alt \in Alterations :
           LET r == rows[3]
               a == Altered(r, alt)
           IN  /\ a.story_points # r.story_points /\ a.blocks # r.blocks
               /\ a.blocked_days # r.blocked_days
               /\ a.scope_changes_14d # r.scope_changes_14d
               /\ a.due_date # r.due_date /\ a.status # r.status

MissingHeader == ~(REQUIRED_HEADERS \subseteq csv.fieldnames)

UnparsableWeek == parse_date(week_ending) = None

\* On bad input nothing is returned or written and the run stays before the
\* write; only bad input leads to the error state.
NoOutputOnError ==
    /\ (MissingHeader \/ UnparsableWeek) =>
           /\ output = None
           /\ snapshot = None
           /\ pc \in {"load", "transform", "fold", "error"}
    /\ MissingHeader => (pc \in {"load", "error"} /\ rows = <<>>)
    /\ pc = "error" => (MissingHeader \/ UnparsableWeek)

\* The two raises are the only steps bad input allows where they stand.
RaisesOnBadInput ==
    /\ (MissingHeader /\ pc = "load") => pc' = "error"
    /\ (UnparsableWeek /\ pc = "fold" /\ i = Len(rows)) => pc' = "error"

\* The output changes only in the write step, to the snapshot transform
\* returned for the loaded rows.
WritesAfterBothReturned ==
    output' # output =>
        /\ pc = "write"
        /\ snapshot # None
        /\ snapshot = transform(LoadRows(csv.fieldnames, csv.records), week_ending)
        /\ output' = snapshot

\* C14: when a required header is missing or week_ending is no date, the run
\* goes to the error state (load_csv raises at once; transform raises when its
\* loop is over) and the output file is never written; the output file is
\* written only by the step after load_csv and transform have both returned,
\* with the snapshot transform returned.
C14_ErrorLeavesNoOutput ==
    []NoOutputOnError /\ [][RaisesOnBadInput /\ WritesAfterBothReturned]_vars

\* transform raised on the week_ending text after folding three rows into an
\* aggregate, and there is no output.
C14_Witness ==
    /\ pc = "error"
    /\ UnparsableWeek
    /\ ~MissingHeader
    /\ i = 3
    /\ Len(initiatives) >= 1
    /\ initiatives[1].dependency_count > 0
    /\ snapshot = None
    /\ output = None

NonNegativeScope == \A j \in 1..Len(rows) : rows[j].scope_changes_14d >= 0

\* C16: in a snapshot made from rows whose scope_changes_14d are all >= 0 every
\* record has dcs_current <= dcs_prior <= dcs_current + 8, so its delta is
\* never positive; and the Positive Momentum list the brief builds from that
\* snapshot holds only Green records with dcs_current >= 85.
C16_PriorNeverBelowCurrent ==
    NonNegativeScope =>
        /\ \A m \in 1..Len(Records) :
               /\ Records[m].dcs_current <= Records[m].dcs_prior
               /\ Records[m].dcs_prior <= Records[m].dcs_current + 8
               /\ delta(Records[m]) <= 0
        /\ pc = "briefed" =>
               \A m \in 1..Len(fn_out[1].positives) :
                   /\ fn_out[1].positives[m].band = "Green"
                   /\ fn_out[1].positives[m].dcs_current >= 85

\* The brief of a snapshot with a strongly Green initiative in its Positive
\* Momentum list and another initiative whose dcs_prior exceeds its dcs_current
\* through scope changes.
C16_Witness ==
    /\ pc = "briefed"
    /\ NonNegativeScope
    /\ \E j \in 1..Len(rows) : rows[j].scope_changes_14d > 0
    /\ Len(fn_out[1].positives) = 1
    /\ \E m \in 1..Len(Records) :
           /\ Records[m].scope_changes_14d > 0
           /\ Records[m].dcs_prior > Records[m].dcs_current

\* C10 (as stated): after every pass of the aggregation loop each aggregate has
\* 0 <= done_points <= total_points.
C10_DonePointsWithinTotal ==
    \A j \in 1..Len(initiatives) :
        /\ 0 <= initiatives[j].done_points
        /\ initiatives[j].done_points <= initiatives[j].total_points

----------------------------------------------------------------------------
(* Properties of the functions applied on their own                        *)

\* The keys met from `start` by following parent links, `start` included.
RECURSIVE ReachFrom(_, _)
ReachFrom(S, pm) ==
    LET T == S \cup {pm[k] : k \in S \cap DOMAIN pm}
    IN  IF T = S THEN S ELSE ReachFrom(T, pm)

NoInitiativeAmong(S, ri) == \A k \in S : ~(k \in DOMAIN ri /\ IsInitiative(ri[k]))

\* C2: find_initiative_key returns after following at most 20 parent links, and
\* returns none when the links met from the starting key close into a cycle on
\* which no row is typed Initiative.
C2_ReturnsWithin20HopsCycleUnresolved ==
    (pc = "returned" /\ fn_out # None) =>
        LET R == ReachFrom({fn_in.issue_key}, fn_in.parent_map)
        IN  /\ fn_out[1].hops <= 20
            /\ (R \subseteq DOMAIN fn_in.parent_map
                /\ NoInitiativeAmong(R, fn_in.row_index))
               => fn_out[1].key = None

\* The walk went round a cycle of three keys without an Initiative and returned
\* none on meeting its starting key again.
C2_Witness ==
    /\ pc = "returned"
    /\ fn_out # None
    /\ LET R == ReachFrom({fn_in.issue_key}, fn_in.parent_map)
       IN  /\ Cardinality(R) = 3
           /\ R \subseteq DOMAIN fn_in.parent_map
           /\ \A k \in R : fn_in.parent_map[k] # k
           /\ fn_in.parent_map[fn_in.parent_map[fn_in.parent_map[fn_in.issue_key]]]
                  = fn_in.issue_key
           /\ NoInitiativeAmong(R, fn_in.row_index)
           /\ fn_out[1] = [key |-> None, hops |-> 3]

\* The key n parent links above k, or None when the links end before.
RECURSIVE Ancestor(_, _, _)
Ancestor(k, n, pm) ==
    IF n = 0 THEN Some(k)
    ELSE IF k \in DOMAIN pm THEN Ancestor(pm[k], n - 1, pm)
    ELSE None

\* The numbers of parent links from k to a row typed Initiative.
InitiativeDistances(k, pm, ri) ==
    {n \in 0..MaxChain :
        LET a == Ancestor(k, n, pm)
        IN  a # None /\ a[1] \in DOMAIN ri /\ IsInitiative(ri[a[1]])}

\* C15: a key returned by find_initiative_key is the key of a row typed
\* Initiative and is met from the starting key by following parent links; a
\* row typed Initiative resolves to itself, parent or not; an issue whose
\* nearest Initiative is at most 19 parent links above it resolves to that
\* Initiative, and one whose nearest Initiative is 20 or more links above it,
\* or that has none above it, resolves to none.
C15_ResolvesToNearestInitiativeWithin19 ==
    (pc = "returned" /\ fn_out # None) =>
        LET start == fn_in.issue_key
            pm == fn_in.parent_map
            ri == fn_in.row_index
            key == fn_out[1].key
            D == InitiativeDistances(start, pm, ri)
            nearest == CHOOSE n \in D : \A m \in D : n <= m
        IN  /\ key # None =>
                   /\ key[1] \in DOMAIN ri
                   /\ IsInitiative(ri[key[1]])
                   /\ key[1] \in ReachFrom({start}, pm)
            /\ (start \in DOMAIN ri /\ IsInitiative(ri[start])) => key = Some(start)
            /\ (D # {} /\ nearest <= 19) => key = Ancestor(start, nearest, pm)
            /\ (D = {} \/ nearest >= 20) => key = None

\* The walk from key 1 up a chain found the Initiative 19 links above it.
C15_Witness ==
    /\ pc = "returned"
    /\ fn_out # None
    /\ fn_in.issue_key = 1
    /\ 1..19 \subseteq DOMAIN fn_in.parent_map
    /\ \A k \in 1..19 : fn_in.parent_map[k] = k + 1
    /\ 20 \in DOMAIN fn_in.row_index
    /\ IsInitiative(fn_in.row_index[20])
    /\ fn_out[1] = [key |-> Some(20), hops |-> 19]

NoOtherSignal(agg) ==
    /\ agg.blocked_days = 0
    /\ agg.scope_changes_14d = 0
    /\ agg.dependency_count = 0
    /\ ~agg.critical_dependency
    /\ agg.due_date = None
    /\ agg.status_notes = <<>>

\* C6 (as stated): for 0 <= done_points <= total_points the progress penalty,
\* which is 100 - dcs_current when no other penalty applies, is
\* (1 - pct_done) * 30 rounded to a nearest integer, pct_done being
\* done_points/total_points, or 0 when total_points = 0.
C6_ProgressPenaltyIsRounded ==
    (pc = "returned" /\ fn_out # None) =>
        LET agg == fn_in.agg
            d == agg.done_points
            t == agg.total_points
            penalty == 100 - fn_out[1].dcs_current
            gap == penalty * t - 30 * (t - d)
        IN  (0 <= d /\ d <= t /\ NoOtherSignal(agg)) =>
                IF t = 0 THEN penalty = 30
                ELSE 2 * gap <= t /\ 2 * (0 - gap) <= t

\* C7: dcs_current is 100 less the progress penalty, min(25, 5*blocked_days),
\* min(20, 4*scope_changes_14d), min(15, 3*dependency_count) plus 5 if critical,
\* the due-date pressure (15 for days_to_target <= 7 and pct_done < 0.8, else 10
\* for days_to_target <= 14 and pct_done < 0.6; no due date counting as 21 days)
\* and 8 for a blocked item, cut to [0,100].  So blocked_days 5, 3 scope changes,
\* nothing done, due in 5 days and a blocked item give 10 and Red; all 10 points
\* done and due in 7 days give 100 and Green.
C7_ScoreIsHundredLessPenalties ==
    (pc = "returned" /\ fn_out # None) =>
        LET agg == fn_in.agg
            rec == fn_out[1]
            pct == PctDone(agg)
            days == IF agg.due_date = None THEN 21 ELSE agg.due_date[1] - fn_in.we
            due == IF days <= 7 /\ 5 * pct.num < 4 * pct.den THEN 15
                   ELSE IF days <= 14 /\ 5 * pct.num < 3 * pct.den THEN 10
                   ELSE 0
            penalties == ProgressPenalty(pct)
                         + Min(25, 5 * agg.blocked_days)
                         + Min(20, 4 * agg.scope_changes_14d)
                         + Min(15, 3 * agg.dependency_count)
                         + (IF agg.critical_dependency THEN 5 ELSE 0)
                         + due
                         + (IF HasBlockedItems(agg) THEN 8 ELSE 0)
        IN  /\ rec.dcs_current = Max(0, Min(100, 100 - penalties))
            /\ rec.days_to_target = days
            /\ (/\ agg.blocked_days = 5 /\ agg.scope_changes_14d = 3
                /\ agg.total_points > 0 /\ agg.done_points = 0
                /\ agg.dependency_count = 0 /\ ~agg.critical_dependency
                /\ days = 5 /\ HasBlockedItems(agg))
               => (rec.dcs_current = 10 /\ rec.band = "Red")
            /\ (/\ agg.blocked_days = 0 /\ agg.scope_changes_14d = 0
                /\ agg.total_points = 10 /\ agg.done_points = 10
                /\ agg.dependency_count = 0 /\ ~agg.critical_dependency
                /\ days = 7 /\ ~HasBlockedItems(agg))
               => (rec.dcs_current = 100 /\ rec.band = "Green")

\* The record of the initiative blocked for 5 days, with 3 scope changes, a
\* 10-point story not done, due in 5 days, and a blocked item.
C7_Witness ==
    /\ pc = "returned"
    /\ fn_out # None
    /\ fn_in.agg.blocked_days = 5
    /\ fn_in.agg.scope_changes_14d = 3
    /\ fn_in.agg.total_points = 10
    /\ fn_in.agg.done_points = 0
    /\ fn_in.agg.dependency_count = 0
    /\ ~fn_in.agg.critical_dependency
    /\ fn_in.agg.due_date = Some(fn_in.we + 5)
    /\ HasBlockedItems(fn_in.agg)
    /\ fn_out[1].dcs_current = 10
    /\ fn_out[1].band = "Red"

\* C9: each of the six driver scores is in 0..10 whatever integers the record
\* holds; Dependencies stays at most 10 with the critical bump; Due Proximity is
\* 10, 7, 4 or 1 for days_to_target <= 7, <= 14, <= 21 or more.
C9_DriverScoresInRange ==
    (pc = "returned" /\ fn_out # None) =>
        LET d == fn_out[1]
            days == fn_in.days_to_target
        IN  /\ \A k \in {"confidence_risk", "blocked", "scope_volatility",
                         "dependencies", "due_proximity", "stagnation"} :
                   d[k] \in 0..10
            /\ d.due_proximity = (CASE days <= 7 -> 10
                                    [] days > 7 /\ days <= 14 -> 7
                                    [] days > 14 /\ days <= 21 -> 4
                                    [] days > 21 -> 1)

\* A critical record with more dependencies than the scale holds and negative
\* fields scores 10 on Dependencies and 0 on the negative drivers.
C9_Witness ==
    /\ pc = "returned"
    /\ fn_out # None
    /\ fn_in.critical_dependency
    /\ fn_in.dependency_count = 9
    /\ fn_in.blocked_days < 0
    /\ fn_in.dcs_current > 100
    /\ fn_out[1].dependencies = 10
    /\ fn_out[1].blocked = 0
    /\ fn_out[1].confidence_risk = 0

====
